---- MODULE Spec2Model ----
(***************************************************************************)
(* The call interface of the messaging client                              *)
(* (src/components/call/call-interface.tsx): one CallInterface component,  *)
(* its React state and refs, the promises it leaves pending                *)
(* (getUserMedia, getDisplayMedia) and the browser events it registers     *)
(* handlers for, together with the CallManager.startCall handler.          *)
(*                                                                         *)
(* React closures are modelled as the code has them: a handler wired in    *)
(* the JSX reads the state of the latest render; the cleanup returned by   *)
(* the mount effect (dependency list []) reads the state of the FIRST      *)
(* render; a continuation after an await reads the state of the render in  *)
(* which the async function was invoked.                                   *)
(***************************************************************************)
EXTENDS Integers, Sequences, FiniteSets, Bags

\* ---------------------------------------------------------------- bounds
\* Participant ids a roster is drawn from.
Ids == {"u1", "u2", "u3"}
\* How many toggleAudio clicks a behaviour holds.
MaxToggles == 3
\* How many startScreenShare invocations a behaviour holds.
MaxShares == 2
\* The clock runs from 0 to MaxTime, in steps of 1/UnitsPerSecond second.
MaxTime == 4
UnitsPerSecond == 2
\* How many ICE candidates the browser hands to onicecandidate.
MaxCandidates == 2
\* How many times startRecording is invoked in a behaviour.
MaxRecordings == 3
\* How many loadUserProfile fetches are in flight at once.
MaxProfileLoads == 2
\* How many requests to the chat routes a behaviour holds.
MaxChatRequests == 3
\* How many friend requests a behaviour holds.
MaxFriendRequests == 3
\* How many like requests a behaviour holds.
MaxLikeRequests == 3
\* How many friends GET /friends returned to the NewChat dialog.
NumFriends == 10

\* useAuth().user.id of the client that runs the component.
user == "u1"

CallTypes == {"audio", "video"}

VARIABLES
    phase,            \* "idle": not mounted, "mounted", "unmounted": cleanup ran
    callType,         \* prop callType
    participants,     \* prop participants (their ids)
    gum,              \* the getUserMedia promise: none | pending | resolved | rejected
    localStream,      \* state localStream of the latest render: TRUE iff non-null
    tracks,           \* the tracks of the acquired stream: kind -> [enabled, stops]
    isAudioEnabled,   \* state isAudioEnabled
    isVideoEnabled,   \* state isVideoEnabled
    isScreenSharing,  \* state isScreenSharing
    peerConnections,  \* keys of the ref peerConnections.current
    pcObjects,        \* every RTCPeerConnection constructed: participant id -> object
    shares,           \* the startScreenShare invocations, in order
    audioToggles,     \* history: how many times toggleAudio was invoked
    lastStartCall,    \* history: the latest CallManager.startCall invocation
    now,              \* Date.now(), the wall clock
    callStartTime,    \* ref callStartTime.current
    callDuration,     \* state callDuration
    timers,           \* how many intervals set by the component are active
    remoteVideoRefs,  \* keys of the ref remoteVideoRefs.current (one <video>)
    videoSrc,         \* srcObject of that <video>: whose remote stream, or "none"
    delivered,        \* history: the participants whose ontrack event fired
    signalingSent,    \* the messages handed to a signaling transport
    iceLogged         \* how many ICE candidates were logged

\* NewChat dialog (call-interface.tsx lines 1916-2230)
VARIABLES
    showNewChat,      \* state showNewChat of the chat list: the dialog is mounted
    selectedUsers,    \* state selectedUsers (the ids, without their order)
    isCreating,       \* state isCreating
    chatRequest,      \* body of the POST /chats request in flight, or NoRequest
    dialogChat        \* participants of the chat the dialog got back, {} if none

newChatVars == <<showNewChat, selectedUsers, isCreating, chatRequest, dialogChat>>

\* POST /posts/:postId/like (server/index.tsx lines 270-305), one post
VARIABLES
    postLikes,        \* likes of the stored record post:{postId}
    likeRecords,      \* the users u with a stored record like:{postId}:{u}
    likeReqs          \* the like requests started, in order: [pc, user, likes]

likeVars == <<postLikes, likeRecords, likeReqs>>

\* Friend requests and friendships (server/index.tsx lines 393-533)
VARIABLES
    friendRequests,     \* records friend_request:{id}, by id 1, 2, ...
    friendRequestFrom,  \* records friend_request_from:{from}:{to}, by <<from, to>>
    friendships         \* records friendship:{k1}:{k2}, by <<k1, k2>>

friendVars == <<friendRequests, friendRequestFrom, friendships>>

\* Chats and messages (server/index.tsx lines 561-783)
VARIABLES
    chats,            \* records chat:{id}, by id 1, 2, ...
    userChats,        \* the <<userId, chatId>> with a record user_chat:{userId}:{chatId}
    messages,         \* records message:{chatId}:{id}, by id
    messageCount,     \* how many messages were ever stored
    chatReqs,         \* the requests to the chat routes in flight (a bag)
    chatReqCount,     \* how many requests to the chat routes have arrived
    lastResponse      \* history: the request answered last, with its status

chatVars == <<chats, userChats, messages, messageCount, chatReqs, chatReqCount,
              lastResponse>>

\* AuthProvider (auth-context.tsx lines 32-181)
VARIABLES
    authUser,         \* state user: whose profile, or "none" for null
    authSession,      \* state session: whose session, or "none" for null
    authLoading,      \* state isLoading
    sbSession,        \* the session the supabase client holds, or "none"
    signInPending,    \* the account of the signInWithPassword call in flight
    signOutPending,   \* supabase.auth.signOut() is in flight
    profileLoads      \* account -> how many loadUserProfile fetches are in flight

authVars == <<authUser, authSession, authLoading, sbSession, signInPending,
              signOutPending, profileLoads>>

\* Voice recording of ChatWindow (call-interface.tsx lines 1344-1528)
VARIABLES
    isRecording,      \* state isRecording of the latest render
    mediaRecorderRef, \* ref mediaRecorderRef.current: index in recorders, 0 for null
    recorders,        \* every MediaRecorder constructed, with its stream
    recPending,       \* the startRecording calls waiting for getUserMedia
    recStarts,        \* history: how many times startRecording was invoked
    mouseDown         \* the mouse button is held on the record button

recVars == <<isRecording, mediaRecorderRef, recorders, recPending, recStarts,
             mouseDown>>

\* The state of the components and routes other than CallInterface.
appVars == <<newChatVars, likeVars, friendVars, chatVars, authVars, recVars>>

vars == <<phase, callType, participants, gum, localStream, tracks,
          isAudioEnabled, isVideoEnabled, isScreenSharing, peerConnections,
          pcObjects, shares, audioToggles, lastStartCall,
          now, callStartTime, callDuration, timers,
          remoteVideoRefs, videoSrc, delivered, signalingSent, iceLogged,
          appVars>>

timerVars == <<now, callStartTime, callDuration, timers>>
remoteVars == <<remoteVideoRefs, videoSrc, delivered>>
signalVars == <<signalingSent, iceLogged>>

\* ------------------------------------------------------------ track names
NoTrack == [src |-> "none", n |-> 0]
MicTrack == [src |-> "mic", n |-> 0]
CameraTrack == [src |-> "camera", n |-> 0]
ScreenTrack(i) == [src |-> "screen", n |-> i]

\* The empty function (an object without keys).
Empty == [x \in {} |-> 0]

NoRequest == [participantIds |-> {}, isGroup |-> FALSE]

\* NewChat: useState initial values (lines 1918-1923); the dialog is closed.
NewChatInit ==
    /\ showNewChat = FALSE
    /\ selectedUsers = {}
    /\ isCreating = FALSE
    /\ chatRequest = NoRequest
    /\ dialogChat = {}

\* The post as POST /posts stored it (likes: 0) and no like record.
LikeInit ==
    /\ postLikes = 0
    /\ likeRecords = {}
    /\ likeReqs = <<>>

\* An empty key-value store: no friend request and no friendship.
FriendInit ==
    /\ friendRequests = <<>>
    /\ friendRequestFrom = Empty
    /\ friendships = Empty

\* An empty key-value store: no chat and no message.
ChatInit ==
    /\ chats = <<>>
    /\ userChats = {}
    /\ messages = Empty
    /\ messageCount = 0
    /\ chatReqs = EmptyBag
    /\ chatReqCount = 0
    /\ lastResponse = [kind |-> "none", user |-> "none", chat |-> 0,
                       message |-> 0, status |-> 0]

\* AuthProvider: useState initial values (lines 33-35), nobody signed in.
AuthInit ==
    /\ authUser = "none"
    /\ authSession = "none"
    /\ authLoading = TRUE
    /\ sbSession = "none"
    /\ signInPending = "none"
    /\ signOutPending = FALSE
    /\ profileLoads = [a \in Ids |-> 0]

\* ChatWindow: useState initial values and fresh refs (lines 1344-1349).
RecInit ==
    /\ isRecording = FALSE
    /\ mediaRecorderRef = 0
    /\ recorders = <<>>
    /\ recPending = {}
    /\ recStarts = 0
    /\ mouseDown = FALSE

\* Initial state of the components and routes other than CallInterface.
AppInit ==
    NewChatInit /\ LikeInit /\ FriendInit /\ ChatInit /\ AuthInit /\ RecInit

\* useState initial values and fresh refs (lines 40-51); nothing is mounted.
Init ==
    /\ AppInit
    /\ phase = "idle"
    /\ callType = "audio"
    /\ participants = {}
    /\ gum = "none"
    /\ localStream = FALSE
    /\ tracks = Empty
    /\ isAudioEnabled = TRUE
    /\ isVideoEnabled = FALSE
    /\ isScreenSharing = FALSE
    /\ peerConnections = {}
    /\ pcObjects = Empty
    /\ shares = <<>>
    /\ audioToggles = 0
    /\ lastStartCall = [during |-> "never", outcome |-> "none"]
    /\ now = 0
    /\ callStartTime = 0
    /\ callDuration = 0
    /\ timers = 0
    /\ remoteVideoRefs = {}
    /\ videoSrc = "none"
    /\ delivered = {}
    /\ signalingSent = <<>>
    /\ iceLogged = 0

\* ------------------------------------------------------- initializeMedia
\* The tracks getUserMedia delivers for the constraints of lines 72-75:
\* audio always, video for a video call.
AcquiredKinds(ct) == IF ct = "video" THEN {"audio", "video"} ELSE {"audio"}

\* A mutant of RemoteParticipants: the self filter of line 86 is dropped.
RemoteParticipants_NoSelfFilter(ps) == ps

\* The participants initializeMedia opens a connection to (lines 85-89).
RemoteParticipants(ps) == {p \in ps : p # user}

\* createPeerConnection (lines 95-127): a new RTCPeerConnection with one
\* sender per track of the local stream. Nothing in the component creates an
\* offer or an answer, so the object stays in state "new" until it is closed.
NewPeerConnection(kinds) ==
    [state |-> "new",
     audio |-> IF "audio" \in kinds THEN MicTrack ELSE NoTrack,
     video |-> IF "video" \in kinds THEN CameraTrack ELSE NoTrack,
     restores |-> 0]

\* getMainParticipant (lines 208-213): the first speaking participant other
\* than the local user, else the first other participant; isSpeaking and the
\* order of the roster are inputs, so it is any of them. "none": undefined.
MainParticipants(ps) ==
    IF {p \in ps : p # user} = {} THEN {"none"} ELSE {p \in ps : p # user}

\* The parent renders <CallInterface>: first render (lines 40-51, with the
\* ref callback of the main <video>, lines 256-264), the timer effect
\* (lines 54-60) and the mount effect, which runs initializeMedia up to its
\* await (lines 63-77).
\* A behaviour follows one component instance from mount to unmount.
Mount(ct, ps) ==
    /\ phase = "idle"
    /\ phase' = "mounted"
    /\ callType' = ct
    /\ participants' = ps
    /\ isAudioEnabled' = TRUE
    /\ isVideoEnabled' = (ct = "video")
    /\ isScreenSharing' = FALSE
    /\ localStream' = FALSE
    /\ peerConnections' = {}
    /\ gum' = "pending"
    /\ callStartTime' = now
    /\ callDuration' = 0
    /\ timers' = timers + 1
    /\ \E mp \in MainParticipants(ps) :
          remoteVideoRefs' = IF ct = "video" /\ mp # "none" THEN {mp} ELSE {}
    /\ UNCHANGED appVars
    /\ UNCHANGED <<tracks, pcObjects, shares, audioToggles, lastStartCall,
                   now, videoSrc, delivered, signalVars>>

\* getUserMedia resolves: the rest of initializeMedia's try block
\* (lines 78-89). Nothing checks that the component is still mounted;
\* setLocalStream on an unmounted component changes nothing.
GetUserMediaResolve ==
    /\ gum = "pending"
    /\ gum' = "resolved"
    /\ tracks' = [k \in AcquiredKinds(callType) |-> [enabled |-> TRUE, stops |-> 0]]
    /\ localStream' = IF phase = "mounted" THEN TRUE ELSE localStream
    /\ LET remote == RemoteParticipants(participants)
       IN /\ pcObjects' = [p \in DOMAIN pcObjects \cup remote |->
                             IF p \in remote
                             THEN NewPeerConnection(AcquiredKinds(callType))
                             ELSE pcObjects[p]]
          /\ peerConnections' = peerConnections \cup remote
    /\ UNCHANGED <<phase, callType, participants, isAudioEnabled, isVideoEnabled,
                   isScreenSharing, shares, audioToggles, lastStartCall>>
    /\ UNCHANGED <<timerVars, remoteVars, signalVars, appVars>>

\* getUserMedia rejects: the catch block logs (lines 90-92).
GetUserMediaReject ==
    /\ gum = "pending"
    /\ gum' = "rejected"
    /\ UNCHANGED <<phase, callType, participants, localStream, tracks,
                   isAudioEnabled, isVideoEnabled, isScreenSharing,
                   peerConnections, pcObjects, shares, audioToggles, lastStartCall>>
    /\ UNCHANGED <<timerVars, remoteVars, signalVars, appVars>>

\* ---------------------------------------------------------------- cleanup
\* localStream as cleanup reads it. The cleanup that runs is the one the
\* mount effect returned (dependency list [], line 68): it closes over the
\* first render, whose localStream is the useState initial value null
\* (line 45).
CleanupLocalStream == FALSE

\* track.stop() on every track of the stream (line 131).
StopAll(ts) == [k \in DOMAIN ts |-> [ts[k] EXCEPT !.stops = @ + 1]]

\* A mutant of AfterClearInterval: the interval is not cleared.
AfterClearInterval_Leak(t) == t

\* clearInterval(timer) (line 59): the component's interval is gone.
AfterClearInterval(t) == IF t > 0 THEN t - 1 ELSE 0

\* A mutant of Unmount: cleanup closes the connections and leaves them in
\* the ref (line 138 is missing).
Unmount_KeepsRef ==
    /\ phase = "mounted"
    /\ phase' = "unmounted"
    /\ tracks' = IF CleanupLocalStream THEN StopAll(tracks) ELSE tracks
    /\ pcObjects' = [p \in DOMAIN pcObjects |->
                       IF p \in peerConnections
                       THEN [pcObjects[p] EXCEPT !.state = "closed"]
                       ELSE pcObjects[p]]
    /\ timers' = AfterClearInterval(timers)
    /\ UNCHANGED appVars
    /\ UNCHANGED <<callType, participants, gum, localStream, isAudioEnabled,
                   isVideoEnabled, isScreenSharing, shares, audioToggles,
                   lastStartCall, now, callStartTime, callDuration,
                   remoteVars, signalVars, peerConnections>>

\* The parent removes <CallInterface> (onEndCall): the cleanups of the timer
\* effect (line 59) and of the mount effect (lines 65-67, 129-139).
Unmount ==
    /\ phase = "mounted"
    /\ phase' = "unmounted"
    /\ tracks' = IF CleanupLocalStream THEN StopAll(tracks) ELSE tracks
    /\ pcObjects' = [p \in DOMAIN pcObjects |->
                       IF p \in peerConnections
                       THEN [pcObjects[p] EXCEPT !.state = "closed"]
                       ELSE pcObjects[p]]
    /\ peerConnections' = {}
    /\ timers' = AfterClearInterval(timers)
    /\ UNCHANGED appVars
    /\ UNCHANGED <<callType, participants, gum, localStream, isAudioEnabled,
                   isVideoEnabled, isScreenSharing, shares, audioToggles,
                   lastStartCall, now, callStartTime, callDuration,
                   remoteVars, signalVars>>

\* ---------------------------------------------------------------- toggles
\* track.enabled = !track.enabled (lines 145, 155).
ToggledEnabled(e) == ~e

\* toggleAudio (lines 141-149), from the microphone button of the latest
\* render.
ToggleAudio ==
    /\ phase = "mounted"
    /\ audioToggles < MaxToggles
    /\ audioToggles' = audioToggles + 1
    /\ IF localStream /\ "audio" \in DOMAIN tracks
       THEN /\ tracks' = [tracks EXCEPT !["audio"].enabled = ToggledEnabled(@)]
            /\ isAudioEnabled' = tracks'["audio"].enabled
       ELSE UNCHANGED <<tracks, isAudioEnabled>>
    /\ UNCHANGED <<phase, callType, participants, gum, localStream,
                   isVideoEnabled, isScreenSharing, peerConnections, pcObjects,
                   shares, lastStartCall>>
    /\ UNCHANGED <<timerVars, remoteVars, signalVars, appVars>>

\* A mutant of ToggleVideo: the camera is turned off by stopping its track.
ToggleVideo_StopsTrack ==
    /\ phase = "mounted"
    /\ callType = "video"
    /\ IF localStream /\ "video" \in DOMAIN tracks
       THEN /\ tracks' = [tracks EXCEPT !["video"].enabled = ToggledEnabled(@),
                                        !["video"].stops = @ + 1]
            /\ isVideoEnabled' = tracks'["video"].enabled
       ELSE UNCHANGED <<tracks, isVideoEnabled>>
    /\ UNCHANGED <<phase, callType, participants, gum, localStream,
                   isAudioEnabled, isScreenSharing, peerConnections, pcObjects,
                   shares, audioToggles, lastStartCall>>
    /\ UNCHANGED <<timerVars, remoteVars, signalVars, appVars>>

\* toggleVideo (lines 151-159); its button is rendered for a video call only
\* (line 397).
ToggleVideo ==
    /\ phase = "mounted"
    /\ callType = "video"
    /\ IF localStream /\ "video" \in DOMAIN tracks
       THEN /\ tracks' = [tracks EXCEPT !["video"].enabled = ToggledEnabled(@)]
            /\ isVideoEnabled' = tracks'["video"].enabled
       ELSE UNCHANGED <<tracks, isVideoEnabled>>
    /\ UNCHANGED <<phase, callType, participants, gum, localStream,
                   isAudioEnabled, isScreenSharing, peerConnections, pcObjects,
                   shares, audioToggles, lastStartCall>>
    /\ UNCHANGED <<timerVars, remoteVars, signalVars, appVars>>

\* ------------------------------------------------------ startScreenShare
\* pc.getSenders().find(s => s.track && s.track.kind === 'video') followed
\* by sender.replaceTrack(t) (lines 170-177, 187-194): the video sender of
\* the connection, when it has one, sends t from now on.
ReplaceVideo(pc, t) == IF pc.video # NoTrack THEN [pc EXCEPT !.video = t] ELSE pc

\* startScreenShare up to its await (lines 161-166), from the screen button
\* of the latest render, which is disabled while isScreenSharing (line 417).
\* sawStream is localStream as this invocation, and the onended handler it
\* installs, close over it.
StartScreenShare ==
    /\ phase = "mounted"
    /\ ~isScreenSharing
    /\ Len(shares) < MaxShares
    /\ shares' = Append(shares, [status |-> "pending", sawStream |-> localStream])
    /\ UNCHANGED <<phase, callType, participants, gum, localStream, tracks,
                   isAudioEnabled, isVideoEnabled, isScreenSharing,
                   peerConnections, pcObjects, audioToggles, lastStartCall>>
    /\ UNCHANGED <<timerVars, remoteVars, signalVars, appVars>>

\* getDisplayMedia resolves for invocation i: lines 168-196. The screen
\* track replaces the video track of every connection in the ref (a
\* connection closed by cleanup is no longer in it).
GetDisplayMediaResolve(i) ==
    /\ shares[i].status = "pending"
    /\ shares' = [shares EXCEPT ![i].status = "live"]
    /\ pcObjects' = [p \in DOMAIN pcObjects |->
                       IF p \in peerConnections
                       THEN ReplaceVideo(pcObjects[p], ScreenTrack(i))
                       ELSE pcObjects[p]]
    /\ isScreenSharing' = IF phase = "mounted" THEN TRUE ELSE isScreenSharing
    /\ UNCHANGED <<phase, callType, participants, gum, localStream, tracks,
                   isAudioEnabled, isVideoEnabled, peerConnections,
                   audioToggles, lastStartCall>>
    /\ UNCHANGED <<timerVars, remoteVars, signalVars, appVars>>

\* A mutant of GetDisplayMediaReject: the failure path still marks the share
\* as started.
GetDisplayMediaReject_StillSharing(i) ==
    /\ shares[i].status = "pending"
    /\ shares' = [shares EXCEPT ![i].status = "denied"]
    /\ isScreenSharing' = IF phase = "mounted" THEN TRUE ELSE isScreenSharing
    /\ UNCHANGED <<phase, callType, participants, gum, localStream, tracks,
                   isAudioEnabled, isVideoEnabled, peerConnections, pcObjects,
                   audioToggles, lastStartCall>>
    /\ UNCHANGED <<timerVars, remoteVars, signalVars, appVars>>

\* getDisplayMedia rejects for invocation i (permission denied, picker
\* cancelled): the catch block logs (lines 197-199).
GetDisplayMediaReject(i) ==
    /\ shares[i].status = "pending"
    /\ shares' = [shares EXCEPT ![i].status = "denied"]
    /\ UNCHANGED <<phase, callType, participants, gum, localStream, tracks,
                   isAudioEnabled, isVideoEnabled, isScreenSharing,
                   peerConnections, pcObjects, audioToggles, lastStartCall>>
    /\ UNCHANGED <<timerVars, remoteVars, signalVars, appVars>>

\* The screen track of invocation i ends (the user stops sharing in the
\* browser's own controls): its onended handler (lines 182-196).
\* cameraTrack is localStream.getVideoTracks()[0], present for a video call.
ScreenTrackEnded(i) ==
    /\ shares[i].status = "live"
    /\ shares' = [shares EXCEPT ![i].status = "ended"]
    /\ isScreenSharing' = IF phase = "mounted" THEN FALSE ELSE isScreenSharing
    /\ pcObjects' = [p \in DOMAIN pcObjects |->
                       IF /\ shares[i].sawStream
                          /\ p \in peerConnections
                          /\ pcObjects[p].video # NoTrack
                          /\ "video" \in DOMAIN tracks
                       THEN [pcObjects[p] EXCEPT !.video = CameraTrack,
                                                 !.restores = @ + 1]
                       ELSE pcObjects[p]]
    /\ UNCHANGED <<phase, callType, participants, gum, localStream, tracks,
                   isAudioEnabled, isVideoEnabled, peerConnections,
                   audioToggles, lastStartCall>>
    /\ UNCHANGED <<timerVars, remoteVars, signalVars, appVars>>

\* ------------------------------------------------- CallManager.startCall
\* startCall (lines 604-607) logs and resolves; it looks at no session.
StartCall(type, participantId) ==
    /\ lastStartCall' = [during |-> phase, outcome |-> "resolved"]
    /\ UNCHANGED <<phase, callType, participants, gum, localStream, tracks,
                   isAudioEnabled, isVideoEnabled, isScreenSharing,
                   peerConnections, pcObjects, shares, audioToggles>>
    /\ UNCHANGED <<timerVars, remoteVars, signalVars, appVars>>

\* ------------------------------------------------------- specification
Next ==
    \/ \E ct \in CallTypes, ps \in (SUBSET Ids) \ {{}} : Mount(ct, ps)
    \/ GetUserMediaResolve
    \/ GetUserMediaReject
    \/ Unmount
    \/ ToggleAudio
    \/ ToggleVideo
    \/ StartScreenShare
    \/ \E i \in 1..Len(shares) : GetDisplayMediaResolve(i)
    \/ \E i \in 1..Len(shares) : GetDisplayMediaReject(i)
    \/ \E i \in 1..Len(shares) : ScreenTrackEnded(i)
    \/ \E type \in CallTypes, participantId \in Ids : StartCall(type, participantId)

Spec == Init /\ [][Next]_vars

TypeOK ==
    /\ phase \in {"idle", "mounted", "unmounted"}
    /\ callType \in CallTypes
    /\ participants \subseteq Ids
    /\ gum \in {"none", "pending", "resolved", "rejected"}
    /\ localStream \in BOOLEAN
    /\ DOMAIN tracks \subseteq {"audio", "video"}
    /\ peerConnections \subseteq DOMAIN pcObjects
    /\ DOMAIN pcObjects \subseteq Ids
    /\ Len(shares) <= MaxShares

\* ------------------------------------------------------- duration timer
callVars == <<phase, callType, participants, gum, localStream, tracks,
              isAudioEnabled, isVideoEnabled, isScreenSharing,
              peerConnections, pcObjects, shares, audioToggles, lastStartCall>>

\* Math.floor((Date.now() - callStartTime.current) / 1000) (line 56).
ElapsedSeconds(t, start) == (t - start) \div UnitsPerSecond

\* Time passes.
Tick ==
    /\ now < MaxTime
    /\ now' = now + 1
    /\ UNCHANGED appVars
    /\ UNCHANGED <<callVars, callStartTime, callDuration, timers, remoteVars,
                   signalVars>>

\* Date.now() (line 56) reads the system's wall clock, which the system may
\* set back (clock synchronisation, a change of the system time).
ClockSetBack ==
    /\ now > 0
    /\ now' = now - 1
    /\ UNCHANGED appVars
    /\ UNCHANGED <<callVars, callStartTime, callDuration, timers, remoteVars,
                   signalVars>>

\* The interval of line 55 fires: its callback (line 56). setCallDuration on
\* an unmounted component changes nothing.
TimerFire ==
    /\ timers > 0
    /\ callDuration' = IF phase = "mounted"
                       THEN ElapsedSeconds(now, callStartTime)
                       ELSE callDuration
    /\ UNCHANGED appVars
    /\ UNCHANGED <<callVars, now, callStartTime, timers, remoteVars, signalVars>>

NextTimer ==
    \/ \E ct \in CallTypes, ps \in (SUBSET Ids) \ {{}} : Mount(ct, ps)
    \/ GetUserMediaResolve
    \/ GetUserMediaReject
    \/ Unmount
    \/ Tick
    \/ ClockSetBack
    \/ TimerFire

\* The call with its clock and its interval. An active interval keeps firing
\* and time keeps passing; nothing makes the user end the call.
SpecTimer == Init /\ [][NextTimer]_vars /\ WF_vars(TimerFire) /\ WF_vars(Tick)

\* ------------------------------------------- peer connection event handlers
\* A render in which getMainParticipant returns mp (isSpeaking changed): the
\* inline ref callback of the main <video> stores the element under mp
\* (lines 259-264); earlier keys stay in the ref.
MainParticipantChanges(mp) ==
    /\ phase = "mounted"
    /\ callType = "video"
    /\ mp \in MainParticipants(participants) \ {"none"}
    /\ remoteVideoRefs' = remoteVideoRefs \cup {mp}
    /\ UNCHANGED appVars
    /\ UNCHANGED <<callVars, timerVars, videoSrc, delivered, signalVars>>

\* ontrack of the connection to p (lines 109-115): the remote stream goes to
\* the <video> stored under p, when there is one.
OnTrack(p) ==
    /\ p \in DOMAIN pcObjects
    /\ pcObjects[p].state # "closed"
    /\ delivered' = delivered \cup {p}
    /\ videoSrc' = IF p \in remoteVideoRefs THEN p ELSE videoSrc
    /\ UNCHANGED appVars
    /\ UNCHANGED <<callVars, timerVars, remoteVideoRefs, signalVars>>

\* A mutant of OnIceCandidate: the candidate is sent to the remote peer.
OnIceCandidate_Sends(p, hasCandidate) ==
    /\ p \in DOMAIN pcObjects
    /\ pcObjects[p].state # "closed"
    /\ iceLogged < MaxCandidates
    /\ iceLogged' = IF hasCandidate THEN iceLogged + 1 ELSE iceLogged
    /\ signalingSent' = IF hasCandidate
                        THEN Append(signalingSent, [to |-> p, type |-> "ice-candidate"])
                        ELSE signalingSent
    /\ UNCHANGED appVars
    /\ UNCHANGED <<callVars, timerVars, remoteVars>>

\* onicecandidate of the connection to p (lines 118-124): a candidate is
\* logged; the event that ends gathering (candidate null) is ignored.
OnIceCandidate(p, hasCandidate) ==
    /\ p \in DOMAIN pcObjects
    /\ pcObjects[p].state # "closed"
    /\ iceLogged < MaxCandidates
    /\ iceLogged' = IF hasCandidate THEN iceLogged + 1 ELSE iceLogged
    /\ UNCHANGED appVars
    /\ UNCHANGED <<callVars, timerVars, remoteVars, signalingSent>>

NextRemote ==
    \/ \E ct \in CallTypes, ps \in (SUBSET Ids) \ {{}} : Mount(ct, ps)
    \/ GetUserMediaResolve
    \/ GetUserMediaReject
    \/ Unmount
    \/ \E mp \in Ids : MainParticipantChanges(mp)
    \/ \E p \in Ids : OnTrack(p)
    \/ \E p \in Ids, hasCandidate \in BOOLEAN : OnIceCandidate(p, hasCandidate)

\* The call with the events of its peer connections.
SpecRemote == Init /\ [][NextRemote]_vars

\* ================================================================ claims

AllTracksStopped == \A k \in DOMAIN tracks : tracks[k].stops > 0
NoOpenPeerConnection == \A p \in DOMAIN pcObjects : pcObjects[p].state = "closed"

\* C1 (as claimed): once the call has ended, whatever the state it was ended
\* in, every local media track is stopped and no peer connection is open.
C1_EndReleasesEverything ==
    phase = "unmounted" => AllTracksStopped /\ NoOpenPeerConnection

\* C2 (as claimed): when getUserMedia resolves after the call has ended, the
\* stream it delivers is stopped at once and no peer connection is created
\* for the ended session.
C2_LateAcquisitionReleased ==
    [][(phase = "unmounted" /\ gum = "pending" /\ gum' = "resolved")
          => /\ \A k \in DOMAIN tracks' : tracks'[k].stops > 0
             /\ pcObjects' = pcObjects
             /\ peerConnections' = peerConnections]_vars

\* C3 (as claimed): a startCall issued while a session is connecting or
\* active fails with AlreadyInSession.
C3_SecondStartRejected ==
    lastStartCall.during = "mounted" => lastStartCall.outcome = "AlreadyInSession"

\* C4 (as claimed): every acquired local track has been stopped exactly once
\* when the session has ended, and not at all before.
C4_ReleasedExactlyOnce ==
    \A k \in DOMAIN tracks :
        tracks[k].stops = IF phase = "unmounted" THEN 1 ELSE 0

\* C5 (as claimed): the audio track is enabled iff the number of toggleAudio
\* calls issued during the session is even.
C5_ParityOfAllCalls ==
    "audio" \in DOMAIN tracks
        => (tracks["audio"].enabled <=> audioToggles % 2 = 0)

\* C6 (as claimed): after getUserMedia has failed there is no session: the
\* call interface is not up, no peer connection was created and no stream or
\* track is held.
C6_FailedAcquisitionFailsStart ==
    gum = "rejected"
        => /\ phase # "mounted"
           /\ DOMAIN pcObjects = {}
           /\ ~localStream
           /\ DOMAIN tracks = {}

\* C7: for a roster that contains the local user, the started call has
\* created one peer connection per other participant and none for the local
\* user: n - 1 for a roster of n.
C7_OnePeerPerRemoteParticipant ==
    (gum = "resolved" /\ user \in participants)
        => /\ Cardinality(DOMAIN pcObjects) = Cardinality(participants) - 1
           /\ DOMAIN pcObjects = participants \ {user}

\* C7 witness: a roster of 3 with the local user gave 2 peer connections.
C7_Witness ==
    /\ gum = "resolved"
    /\ participants = Ids
    /\ Cardinality(DOMAIN pcObjects) = 2

\* C8 (as claimed): when a live screen share ends during the call, every peer
\* connection with an outgoing video track sends the camera track afterwards,
\* replaced at most once and exactly once where the screen track was being
\* sent, and its audio sender is untouched.
C8_CameraRestoredOnce ==
    [][\A i \in 1..Len(shares) :
          (phase = "mounted" /\ shares[i].status = "live"
                             /\ shares'[i].status = "ended")
          => \A p \in peerConnections :
                /\ pcObjects'[p].audio = pcObjects[p].audio
                /\ pcObjects[p].video # NoTrack
                     => /\ pcObjects'[p].video = CameraTrack
                        /\ pcObjects'[p].restores <= pcObjects[p].restores + 1
                        /\ pcObjects[p].video # CameraTrack
                             => pcObjects'[p].restores = pcObjects[p].restores + 1]_vars

\* C9: a getDisplayMedia that is denied or cancelled leaves isScreenSharing,
\* the local stream, the tracks' flags, the set of peer connections and their
\* outgoing tracks as they were.
C9_DeniedShareChangesNothing ==
    [][(\E i \in 1..Len(shares) :
           shares[i].status = "pending" /\ shares'[i].status = "denied")
          => /\ isScreenSharing' = isScreenSharing
             /\ localStream' = localStream
             /\ tracks' = tracks
             /\ isAudioEnabled' = isAudioEnabled
             /\ isVideoEnabled' = isVideoEnabled
             /\ peerConnections' = peerConnections
             /\ pcObjects' = pcObjects
             /\ phase' = phase]_vars

\* C9 witness: a share was denied in a running call with peer connections,
\* and the call is not screen sharing.
C9_Witness ==
    /\ phase = "mounted"
    /\ peerConnections # {}
    /\ ~isScreenSharing
    /\ \E i \in 1..Len(shares) : shares[i].status = "denied"

\* C12 (as claimed): the remote stream of every participant whose ontrack
\* event fired is held for that participant, in audio and in video calls.
C12_RemoteStreamsRetained ==
    \A p \in delivered : p \in remoteVideoRefs /\ videoSrc = p

\* C13: a peer connection's state only moves from new to closed; a closed
\* connection is never changed again and is never in the ref the component
\* works with.
C13_ClosedNeverReused ==
    [][/\ \A p \in DOMAIN pcObjects :
             /\ p \in DOMAIN pcObjects'
             /\ pcObjects[p].state = "closed" => pcObjects'[p] = pcObjects[p]
             /\ pcObjects'[p].state # pcObjects[p].state
                  => pcObjects[p].state = "new" /\ pcObjects'[p].state = "closed"
       /\ \A p \in peerConnections' : pcObjects'[p].state # "closed"]_vars

\* C13 witness: a connection was closed, and a screen share that became live
\* did not touch it.
C13_Witness ==
    /\ \E p \in DOMAIN pcObjects :
          pcObjects[p].state = "closed" /\ pcObjects[p].video = CameraTrack
    /\ \E i \in 1..Len(shares) : shares[i].status = "live"

\* C14 (as claimed): the reported duration never decreases, and a tick that
\* changes it sets it to the whole seconds elapsed since the start time.
C14_DurationMonotonicElapsed ==
    [][/\ callDuration' >= callDuration
       /\ callDuration' # callDuration
            => callDuration' = ElapsedSeconds(now', callStartTime')]_vars

\* C15 (as claimed): a peer connection in state new eventually leaves it.
C15_EventuallyLeavesPending ==
    \A p \in Ids :
        (p \in DOMAIN pcObjects /\ pcObjects[p].state = "new")
            ~> (p \in DOMAIN pcObjects /\ pcObjects[p].state # "new")

\* C16: a step of toggleAudio or toggleVideo changes the enabled flag of at
\* most one local track, toggleAudio never that of the video track; it stops
\* no track and leaves the session's lifecycle, the acquisition, the peer
\* connections and their senders, and the screen shares as they were.
C16_TogglesOnlyFlipEnabled ==
    [][(/\ phase = "mounted"
        /\ \/ audioToggles' # audioToggles
           \/ isAudioEnabled' # isAudioEnabled
           \/ isVideoEnabled' # isVideoEnabled)
          => /\ phase' = phase
             /\ gum' = gum
             /\ localStream' = localStream
             /\ DOMAIN tracks' = DOMAIN tracks
             /\ \A k \in DOMAIN tracks : tracks'[k].stops = tracks[k].stops
             /\ Cardinality({k \in DOMAIN tracks :
                               tracks'[k].enabled # tracks[k].enabled}) <= 1
             /\ (audioToggles' # audioToggles /\ "video" \in DOMAIN tracks)
                  => tracks'["video"] = tracks["video"]
             /\ peerConnections' = peerConnections
             /\ pcObjects' = pcObjects
             /\ shares' = shares
             /\ isScreenSharing' = isScreenSharing]_vars

\* C16 witness: both tracks were disabled by toggles in a call with peer
\* connections, and neither was stopped.
C16_Witness ==
    /\ phase = "mounted"
    /\ peerConnections # {}
    /\ DOMAIN tracks = {"audio", "video"}
    /\ \A k \in DOMAIN tracks : ~tracks[k].enabled /\ tracks[k].stops = 0
    /\ ~isAudioEnabled /\ ~isVideoEnabled

\* C17 (as claimed): whenever isScreenSharing is true, every peer connection
\* with an outgoing video track is sending a screen track.
C17_SharingMeansScreenSent ==
    (phase = "mounted" /\ isScreenSharing)
        => \A p \in peerConnections :
              pcObjects[p].video # NoTrack => pcObjects[p].video.src = "screen"

\* C18 (as claimed): after the call has ended no screen capture of the
\* session is still live.
C18_ScreenCaptureReleasedAtEnd ==
    phase = "unmounted" => \A i \in 1..Len(shares) : shares[i].status # "live"

\* C19: the component never has more than one interval, none when it is not
\* mounted, and once it is unmounted callDuration no longer changes.
C19_TimerEndsWithCall ==
    [][/\ timers' <= 1
       /\ phase' # "mounted" => timers' = 0
       /\ phase = "unmounted" => callDuration' = callDuration]_vars

\* C19 witness: the call ended after its timer had reported a duration, and
\* time went on.
C19_Witness ==
    /\ phase = "unmounted"
    /\ callDuration > 0
    /\ ElapsedSeconds(now, callStartTime) > callDuration

\* C20 (as claimed): nothing is sent on the signaling transport and no peer
\* connection ever leaves its initial state.
C20_NeverLeavesInitialState ==
    /\ signalingSent = <<>>
    /\ \A p \in DOMAIN pcObjects : pcObjects[p].state = "new"

\* C20 (amended): nothing is sent on the signaling transport, and the only
\* change of a peer connection's state is its close() in cleanup.
C20_OnlyCleanupChangesState ==
    [][/\ signalingSent' = <<>>
       /\ \A p \in DOMAIN pcObjects :
             pcObjects'[p].state # pcObjects[p].state
                => /\ phase = "mounted" /\ phase' = "unmounted"
                   /\ pcObjects'[p].state = "closed"]_vars

\* C20 witness: ICE candidates were logged and the call was ended.
C20_Witness ==
    /\ iceLogged = MaxCandidates
    /\ \E p \in DOMAIN pcObjects : pcObjects[p].state = "closed"

\* ================================================================ NewChat
\* CallInterface, its timer and its peer-connection events are not part of
\* the specifications below.
callInterfaceVars == <<callVars, timerVars, remoteVars, signalVars>>
\* Nor are the chat routes, AuthProvider and the voice recorder part of the
\* specifications of the dialog, the like route and the friend routes.
restVars == <<chatVars, authVars, recVars>>

\* The limit of lines 1975 and 2169.
MaxSelected == 10
\* The friends listed in the dialog, and the user who opened it.
Friends == 1..NumFriends
dialogUser == 0

\* POST /chats, line 587: [...new Set([user.id, ...participantIds])].
ChatParticipants(caller, participantIds) == {caller} \cup participantIds

\* The chat list mounts the dialog (line 1045); one dialog per behaviour.
OpenNewChat ==
    /\ ~showNewChat
    /\ dialogChat = {}
    /\ showNewChat' = TRUE
    /\ selectedUsers' = {}
    /\ isCreating' = FALSE
    /\ UNCHANGED <<chatRequest, dialogChat, callInterfaceVars, likeVars, friendVars, restVars>>

\* Click on a friend's row (lines 2168-2171) and handleUserToggle
\* (lines 1963-1969).
HandleUserToggle(f) ==
    /\ showNewChat
    /\ ~(Cardinality(selectedUsers) >= MaxSelected /\ f \notin selectedUsers)
    /\ selectedUsers' = IF f \in selectedUsers
                           THEN selectedUsers \ {f}
                           ELSE selectedUsers \cup {f}
    /\ UNCHANGED <<showNewChat, isCreating, chatRequest, dialogChat,
                   callInterfaceVars, likeVars, friendVars, restVars>>

\* handleCreateChat up to the fetch (lines 1971-1993); the button is
\* disabled while isCreating or with nothing selected (line 2211).
HandleCreateChat ==
    /\ showNewChat
    /\ ~isCreating
    /\ selectedUsers # {}
    /\ Cardinality(selectedUsers) <= MaxSelected
    /\ isCreating' = TRUE
    /\ chatRequest' = [participantIds |-> selectedUsers,
                       isGroup |-> Cardinality(selectedUsers) > 1]
    /\ UNCHANGED <<showNewChat, selectedUsers, dialogChat, callInterfaceVars, likeVars, friendVars, restVars>>

\* POST /chats creates the chat (lines 586-605), the response is ok and
\* onChatCreated closes the dialog (lines 1997-2006, 1048-1052), which
\* unmounts the component and drops its state.
PostChatsOk ==
    /\ isCreating
    /\ dialogChat' = ChatParticipants(dialogUser, chatRequest.participantIds)
    /\ chatRequest' = NoRequest
    /\ isCreating' = FALSE
    /\ showNewChat' = FALSE
    /\ selectedUsers' = {}
    /\ UNCHANGED <<callInterfaceVars, likeVars, friendVars, restVars>>

\* The request fails (lines 2000-2006): the dialog stays open.
PostChatsFails ==
    /\ isCreating
    /\ chatRequest' = NoRequest
    /\ isCreating' = FALSE
    /\ UNCHANGED <<showNewChat, selectedUsers, dialogChat, callInterfaceVars, likeVars, friendVars, restVars>>

NextNewChat ==
    \/ OpenNewChat
    \/ \E f \in Friends : HandleUserToggle(f)
    \/ HandleCreateChat
    \/ PostChatsOk
    \/ PostChatsFails

SpecNewChat == Init /\ [][NextNewChat]_vars

\* C21: no chat created through the new-chat dialog has more than 10
\* entries in its participants list.
C21_GroupLimitedToTen == Cardinality(dialogChat) <= MaxSelected

\* ================================================= POST /posts/:postId/like
\* Every await of the handler is a point where another request can run.
Max(a, b) == IF a >= b THEN a ELSE b

\* Lines 272-278: the request of user u arrives and reads the post.
LikeGetPost(u) ==
    /\ Len(likeReqs) < MaxLikeRequests
    /\ likeReqs' = Append(likeReqs, [pc |-> "gotPost", user |-> u,
                                      likes |-> postLikes, existingLike |-> FALSE])
    /\ UNCHANGED <<postLikes, likeRecords, callInterfaceVars, newChatVars, friendVars, restVars>>

\* Lines 284-285: kv.get(likeKey).
LikeGetLike(r) ==
    /\ likeReqs[r].pc = "gotPost"
    /\ likeReqs' = [likeReqs EXCEPT ![r].pc = "gotLike",
                                    ![r].existingLike = (likeReqs[r].user \in likeRecords)]
    /\ UNCHANGED <<postLikes, likeRecords, callInterfaceVars, newChatVars, friendVars, restVars>>

\* Lines 287-297: kv.del or kv.set of the like record, then the count of
\* the post object read at line 278 is changed.
LikeWriteLike(r) ==
    /\ likeReqs[r].pc = "gotLike"
    /\ IF likeReqs[r].existingLike
          THEN /\ likeRecords' = likeRecords \ {likeReqs[r].user}
               /\ likeReqs' = [likeReqs EXCEPT ![r].pc = "wroteLike",
                                               ![r].likes = Max(0, @ - 1)]
          ELSE /\ likeRecords' = likeRecords \cup {likeReqs[r].user}
               /\ likeReqs' = [likeReqs EXCEPT ![r].pc = "wroteLike",
                                               ![r].likes = @ + 1]
    /\ UNCHANGED <<postLikes, callInterfaceVars, newChatVars, friendVars, restVars>>

\* Lines 299-300: kv.set of the post, and the response.
LikeSetPost(r) ==
    /\ likeReqs[r].pc = "wroteLike"
    /\ postLikes' = likeReqs[r].likes
    /\ likeReqs' = [likeReqs EXCEPT ![r].pc = "done"]
    /\ UNCHANGED <<likeRecords, callInterfaceVars, newChatVars, friendVars, restVars>>

NextLike ==
    \/ \E u \in Ids : LikeGetPost(u)
    \/ \E r \in DOMAIN likeReqs : LikeGetLike(r)
    \/ \E r \in DOMAIN likeReqs : LikeWriteLike(r)
    \/ \E r \in DOMAIN likeReqs : LikeSetPost(r)

SpecLike == Init /\ [][NextLike]_vars

NoLikeRequestInFlight == \A r \in DOMAIN likeReqs : likeReqs[r].pc = "done"

\* C22: once the like requests have completed, post.likes is the number of
\* stored like records of the post and is not negative.
C22_LikesCountRecords ==
    NoLikeRequestInFlight
        => postLikes = Cardinality(likeRecords) /\ postLikes >= 0

\* ========================================== friend requests and friendships
\* User ids are the UUID strings of Supabase Auth; Ids stands for them.
NaN == "NaN"

\* Number(id), the conversion Math.min and Math.max apply to an argument:
\* a UUID string is no numeric literal.
ToNumber(id) == NaN

\* Math.min(a, b) and Math.max(a, b): NaN as soon as one argument converts
\* to NaN.
MathMin(a, b) ==
    IF ToNumber(a) = NaN \/ ToNumber(b) = NaN THEN NaN
    ELSE IF ToNumber(a) <= ToNumber(b) THEN ToNumber(a) ELSE ToNumber(b)

MathMax(a, b) ==
    IF ToNumber(a) = NaN \/ ToNumber(b) = NaN THEN NaN
    ELSE IF ToNumber(a) >= ToNumber(b) THEN ToNumber(a) ELSE ToNumber(b)

\* The key friendship:${Math.min(..)}:${Math.max(..)} of lines 417, 480, 526.
FriendshipKey(a, b) == <<MathMin(a, b), MathMax(a, b)>>

\* The function f with key k set to v (kv.set), and with key k removed (kv.del).
KvSet(f, k, v) == [x \in DOMAIN f \cup {k} |-> IF x = k THEN v ELSE f[x]]
KvDel(f, k) == [x \in DOMAIN f \ {k} |-> f[x]]

\* POST /friend-requests by user u (lines 393-440).
SendFriendRequest(u, toUserId) ==
    /\ Len(friendRequests) < MaxFriendRequests
    /\ toUserId # u
    /\ ~(<<u, toUserId>> \in DOMAIN friendRequestFrom
           /\ friendRequestFrom[<<u, toUserId>>].status = "pending")
    /\ FriendshipKey(u, toUserId) \notin DOMAIN friendships
    /\ LET request == [id |-> Len(friendRequests) + 1, fromUserId |-> u,
                       toUserId |-> toUserId, status |-> "pending"]
       IN /\ friendRequestFrom' = KvSet(friendRequestFrom, <<u, toUserId>>, request)
          /\ friendRequests' = Append(friendRequests, request)
    /\ UNCHANGED <<friendships, callInterfaceVars, newChatVars, likeVars, restVars>>

\* PUT /friend-requests/:requestId by user u (lines 443-488).
RespondToFriendRequest(u, requestId, action) ==
    /\ requestId \in DOMAIN friendRequests
    /\ friendRequests[requestId].toUserId = u
    /\ LET request == [friendRequests[requestId] EXCEPT
                          !.status = IF action = "accept" THEN "accepted"
                                                          ELSE "rejected"]
           user1 == MathMin(request.fromUserId, request.toUserId)
           user2 == MathMax(request.fromUserId, request.toUserId)
       IN /\ friendRequests' = [friendRequests EXCEPT ![requestId] = request]
          /\ friendRequestFrom' =
                 KvSet(friendRequestFrom,
                       <<request.fromUserId, request.toUserId>>, request)
          /\ friendships' =
                 IF action = "accept"
                    THEN KvSet(friendships, <<user1, user2>>,
                               [user1Id |-> user1, user2Id |-> user2])
                    ELSE friendships
    /\ UNCHANGED <<callInterfaceVars, newChatVars, likeVars, restVars>>

\* DELETE /friends/:friendId by user u (lines 515-533).
RemoveFriend(u, friendId) ==
    /\ friendships' = KvDel(friendships, FriendshipKey(u, friendId))
    /\ UNCHANGED <<friendRequests, friendRequestFrom, callInterfaceVars,
                   newChatVars, likeVars, restVars>>

\* GET /friends by user u (lines 491-512): the ids of the profiles returned.
FriendsOf(u) ==
    {IF friendships[k].user1Id = u THEN friendships[k].user2Id
                                   ELSE friendships[k].user1Id :
        k \in {x \in DOMAIN friendships :
                  friendships[x].user1Id = u \/ friendships[x].user2Id = u}}
        \cap Ids

NextFriend ==
    \/ \E u, t \in Ids : SendFriendRequest(u, t)
    \/ \E u \in Ids, r \in 1..MaxFriendRequests, a \in {"accept", "reject"} :
          RespondToFriendRequest(u, r, a)
    \/ \E u, f \in Ids : RemoveFriend(u, f)

SpecFriend == Init /\ [][NextFriend]_vars

\* C23: when the recipient accepts a request from A to B, A is in B's
\* GET /friends list and B in A's, and the friendship is stored with
\* user1Id/user2Id naming exactly A and B.
C23_AcceptedPairIsStored ==
    [][\A r \in DOMAIN friendRequests :
          (friendRequests[r].status # "accepted"
             /\ friendRequests'[r].status = "accepted")
          => LET a == friendRequests[r].fromUserId
                 b == friendRequests[r].toUserId
             IN /\ a \in FriendsOf(b)'
                /\ b \in FriendsOf(a)'
                /\ \E k \in DOMAIN friendships' :
                      {friendships'[k].user1Id, friendships'[k].user2Id} = {a, b}]_vars

\* C24: the status of a friend request changes only from pending: a request
\* that is accepted or rejected is never changed by a later response.
C24_StatusChangesOnce ==
    [][\A r \in DOMAIN friendRequests :
          friendRequests'[r].status # friendRequests[r].status
             => friendRequests[r].status = "pending"]_vars

\* ======================================================= chats and messages
\* Every await of a handler is a point where another request can run; a
\* kv.get of the chat record immediately followed by the kv.set that writes
\* it back is one step (the write replaces lastMessage whatever was read).
notChatVars == <<callInterfaceVars, newChatVars, likeVars, friendVars,
                 authVars, recVars>>
kvVars == <<chats, userChats, messages, messageCount>>

\* lastMessage: null.
NoMessage == [content |-> 0, senderId |-> "none", createdAt |-> 0]

\* A request in flight: the route, the caller, the parameters, the position
\* in the handler and the handler's local values.
ChatReq(kind, u, c, m, pc) ==
    [kind |-> kind, user |-> u, chat |-> c, message |-> m, pc |-> pc,
     participantIds |-> {}, remaining |-> {}, last |-> NoMessage]

\* c.json(...) with the given status: the response of a request.
Response(kind, u, c, m, status) ==
    [kind |-> kind, user |-> u, chat |-> c, message |-> m, status |-> status]

\* The request that arrives is answered at once / goes on as req.
Answered(resp) ==
    /\ chatReqCount' = chatReqCount + 1
    /\ lastResponse' = resp
    /\ UNCHANGED chatReqs

InFlight(req) ==
    /\ chatReqCount' = chatReqCount + 1
    /\ chatReqs' = chatReqs (+) SetToBag({req})
    /\ UNCHANGED lastResponse

\* Request req in flight goes on as next / is answered with the status.
Continues(req, next) ==
    /\ chatReqs' = (chatReqs (-) SetToBag({req})) (+) SetToBag({next})
    /\ UNCHANGED <<chatReqCount, lastResponse>>

Completed(req, status) ==
    /\ chatReqs' = chatReqs (-) SetToBag({req})
    /\ lastResponse' = Response(req.kind, req.user, req.chat, req.message, status)
    /\ UNCHANGED chatReqCount

\* The requests in flight at position pc of their handler.
At(pc) == {req \in BagToSet(chatReqs) : req.pc = pc}

\* Lines 577-583: the caller's personal chats that include otherUserId.
ExistingPersonalChats(u, otherUserId) ==
    {c \in DOMAIN chats : /\ <<u, c>> \in userChats
                          /\ ~chats[c].isGroup
                          /\ otherUserId \in chats[c].participants}

\* The users who create chats.
Creators == {"u1", "u2"}

\* POST /chats by user u up to the decision to create (lines 561-584),
\* with the isGroup the dialog sends (line 1980).
CreateChatArrives(u, participantIds) ==
    /\ chatReqCount < MaxChatRequests
    /\ participantIds # {}
    /\ LET isGroup == Cardinality(participantIds) > 1
           found == IF ~isGroup /\ Cardinality(participantIds) = 1
                       THEN UNION {ExistingPersonalChats(u, o) : o \in participantIds}
                       ELSE {}
       IN IF found # {}
             THEN \E c \in found : Answered(Response("create", u, c, 0, 200))
             ELSE InFlight([ChatReq("create", u, 0, 0, "create") EXCEPT
                               !.participantIds = participantIds])
    /\ UNCHANGED <<kvVars, notChatVars>>

\* Lines 586-598: the chat record is built and stored.
CreateChatSet(req) ==
    /\ req \in At("create")
    /\ LET ps == ChatParticipants(req.user, req.participantIds)
           chat == [isGroup |-> Cardinality(req.participantIds) > 1
                                   \/ Cardinality(ps) > 2,
                    participants |-> ps, lastMessage |-> NoMessage]
       IN /\ chats' = Append(chats, chat)
          /\ Continues(req, [req EXCEPT !.pc = "index",
                                        !.chat = Len(chats) + 1,
                                        !.remaining = ps])
    /\ UNCHANGED <<userChats, messages, messageCount, notChatVars>>

\* The next element of the array participants: the caller comes first.
NextParticipant(req) ==
    IF req.user \in req.remaining THEN req.user
    ELSE CHOOSE p \in req.remaining : TRUE

\* Lines 601-605: one kv.set of the loop over participants; after the
\* last one the response.
CreateChatIndex(req) ==
    /\ req \in At("index")
    /\ LET p == NextParticipant(req)
       IN /\ userChats' = userChats \cup {<<p, req.chat>>}
          /\ IF req.remaining = {p}
                THEN Completed(req, 200)
                ELSE Continues(req, [req EXCEPT !.remaining = @ \ {p}])
    /\ UNCHANGED <<chats, messages, messageCount, notChatVars>>

\* The chat ids and message ids a request names: those of the chats stored
\* and of the messages stored so far (deleted ones included).
ChatIds == DOMAIN chats
MessageIds == 1..messageCount

\* A mutant of IsMember: the routes check no membership.
IsMember_NoCheck(u, c) == TRUE

\* Lines 623-626, 651-654, 739-742: kv.get of the membership record.
IsMember(u, c) == <<u, c>> \in userChats

\* The message ids stored for chat c (kv.getByPrefix of lines 628, 756).
MessagesOf(c) == {m \in DOMAIN messages : messages[m].chatId = c}

\* Lines 711-715, 758-765: lastMessage for the stored message m.
LastMessageOf(m) ==
    [content |-> m, senderId |-> messages[m].senderId,
     createdAt |-> messages[m].createdAt]

\* GET /chats/:chatId/messages by user u (lines 613-638).
ListMessages(u, c) ==
    /\ chatReqCount < MaxChatRequests
    /\ Answered(Response("list", u, c, 0, IF IsMember(u, c) THEN 200 ELSE 403))
    /\ UNCHANGED <<kvVars, notChatVars>>

\* POST /chats/:chatId/messages by user u up to the membership check
\* (lines 641-654).
SendMessageArrives(u, c) ==
    /\ chatReqCount < MaxChatRequests
    /\ IF IsMember(u, c)
          THEN InFlight(ChatReq("send", u, c, 0, "store"))
          ELSE Answered(Response("send", u, c, 0, 403))
    /\ UNCHANGED <<kvVars, notChatVars>>

\* Lines 694-706: the message is built, with createdAt the time of this
\* step, and stored.
SendMessageStore(req) ==
    /\ req \in At("store")
    /\ messageCount' = messageCount + 1
    /\ messages' = KvSet(messages, messageCount + 1,
                         [chatId |-> req.chat, senderId |-> req.user,
                          createdAt |-> messageCount + 1])
    /\ Continues(req, [req EXCEPT
                          !.pc = "setChat",
                          !.message = messageCount + 1,
                          !.last = [content |-> messageCount + 1,
                                    senderId |-> req.user,
                                    createdAt |-> messageCount + 1]])
    /\ UNCHANGED <<chats, userChats, notChatVars>>

\* Lines 709-720 and 759-778: the chat record is read, given the
\* lastMessage the request computed and written back; then the response.
SetChat(req) ==
    /\ req \in At("setChat")
    /\ chats' = IF req.chat \in DOMAIN chats
                   THEN [chats EXCEPT ![req.chat].lastMessage = req.last]
                   ELSE chats
    /\ Completed(req, 200)
    /\ UNCHANGED <<userChats, messages, messageCount, notChatVars>>

\* DELETE /chats/:chatId/messages/:messageId by user u up to the checks
\* (lines 728-751): membership, then the message and its sender.
DeleteMessageArrives(u, c, m) ==
    /\ chatReqCount < MaxChatRequests
    /\ IF ~IsMember(u, c) THEN Answered(Response("delete", u, c, m, 403))
       ELSE IF m \notin MessagesOf(c) THEN Answered(Response("delete", u, c, m, 404))
       ELSE IF messages[m].senderId # u THEN Answered(Response("delete", u, c, m, 403))
       ELSE InFlight(ChatReq("delete", u, c, m, "del"))
    /\ UNCHANGED <<kvVars, notChatVars>>

\* Line 753: kv.del of the message.
DeleteMessageDel(req) ==
    /\ req \in At("del")
    /\ messages' = KvDel(messages, req.message)
    /\ Continues(req, [req EXCEPT !.pc = "list"])
    /\ UNCHANGED <<chats, userChats, messageCount, notChatVars>>

\* Lines 756-758: the messages of the chat are read and the one with the
\* latest createdAt is picked (null if there is none).
DeleteMessageList(req) ==
    /\ req \in At("list")
    /\ LET ms == MessagesOf(req.chat)
       IN Continues(req, [req EXCEPT
             !.pc = "setChat",
             !.last = IF ms = {} THEN NoMessage
                      ELSE LastMessageOf(CHOOSE m \in ms : \A n \in ms :
                              messages[n].createdAt <= messages[m].createdAt)])
    /\ UNCHANGED <<kvVars, notChatVars>>

NextChat ==
    \/ \E u \in Creators : \E ps \in SUBSET (Ids \ {u}) : CreateChatArrives(u, ps)
    \/ \E req \in BagToSet(chatReqs) : CreateChatSet(req)
    \/ \E req \in BagToSet(chatReqs) : CreateChatIndex(req)
    \/ \E u \in Ids, c \in ChatIds : ListMessages(u, c)
    \/ \E u \in Ids, c \in ChatIds : SendMessageArrives(u, c)
    \/ \E req \in BagToSet(chatReqs) : SendMessageStore(req)
    \/ \E req \in BagToSet(chatReqs) : SetChat(req)
    \/ \E u \in Ids, c \in ChatIds, m \in MessageIds : DeleteMessageArrives(u, c, m)
    \/ \E req \in BagToSet(chatReqs) : DeleteMessageDel(req)
    \/ \E req \in BagToSet(chatReqs) : DeleteMessageList(req)

SpecChat == Init /\ [][NextChat]_vars

\* C25: at most one personal chat exists per pair of users.
C25_OnePersonalChatPerPair ==
    \A c1, c2 \in DOMAIN chats :
        (c1 # c2 /\ ~chats[c1].isGroup /\ ~chats[c2].isGroup)
            => chats[c1].participants # chats[c2].participants

AnsweredAtOnce == chatReqCount' # chatReqCount /\ chatReqs' = chatReqs

C27_LastMessageIsLatest ==
    chatReqs = EmptyBag =>
        \A c \in DOMAIN chats :
            chats[c].lastMessage =
                IF MessagesOf(c) = {} THEN NoMessage
                ELSE LastMessageOf(CHOOSE m \in MessagesOf(c) :
                        \A n \in MessagesOf(c) :
                            messages[n].createdAt <= messages[m].createdAt)

\* ============================================================ AuthProvider
\* The accounts are Ids; "none" stands for null. The supabase client runs
\* the onAuthStateChange handler when a sign-in or sign-out takes effect,
\* before the awaiting function goes on.
notAuthVars == <<callInterfaceVars, newChatVars, likeVars, friendVars,
                 chatVars, recVars>>

LoadsInFlight == profileLoads["u1"] + profileLoads["u2"] + profileLoads["u3"]

\* loadUserProfile up to its fetch (lines 70-77), n times for account a.
StartLoads(a, n) == [profileLoads EXCEPT ![a] = @ + n]

\* checkAuth (lines 39-51): getSession resolves with the client's session.
CheckAuth ==
    /\ authLoading
    /\ LoadsInFlight < MaxProfileLoads
    /\ authSession' = sbSession
    /\ profileLoads' = IF sbSession # "none" THEN StartLoads(sbSession, 1)
                                              ELSE profileLoads
    /\ authLoading' = FALSE
    /\ UNCHANGED <<authUser, sbSession, signInPending, signOutPending,
                   notAuthVars>>

\* signIn up to its await (lines 88-93).
SignIn(a) ==
    /\ signInPending = "none"
    /\ signInPending' = a
    /\ UNCHANGED <<authUser, authSession, authLoading, sbSession,
                   signOutPending, profileLoads, notAuthVars>>

\* signInWithPassword succeeds: the client holds the session and runs the
\* handler with SIGNED_IN (lines 57-60), then signIn goes on (lines 99-104);
\* each of the two sets the session and starts a profile load.
SignInOk ==
    /\ signInPending # "none"
    /\ LoadsInFlight + 2 <= MaxProfileLoads
    /\ sbSession' = signInPending
    /\ authSession' = signInPending
    /\ profileLoads' = StartLoads(signInPending, 2)
    /\ signInPending' = "none"
    /\ UNCHANGED <<authUser, authLoading, signOutPending, notAuthVars>>

\* signInWithPassword returns an error (lines 95-97).
SignInError ==
    /\ signInPending # "none"
    /\ signInPending' = "none"
    /\ UNCHANGED <<authUser, authSession, authLoading, sbSession,
                   signOutPending, profileLoads, notAuthVars>>

\* signOut up to its await (lines 134-136).
SignOut ==
    /\ ~signOutPending
    /\ signOutPending' = TRUE
    /\ UNCHANGED <<authUser, authSession, authLoading, sbSession,
                   signInPending, profileLoads, notAuthVars>>

\* supabase.auth.signOut() takes effect: the handler runs with SIGNED_OUT
\* (lines 58, 61-63), then signOut goes on (lines 137-138).
SignOutDone ==
    /\ signOutPending
    /\ sbSession' = "none"
    /\ authSession' = "none"
    /\ authUser' = "none"
    /\ signOutPending' = FALSE
    /\ UNCHANGED <<authLoading, signInPending, profileLoads, notAuthVars>>

\* The fetch of loadUserProfile answers ok (lines 79-82): setUser(profile).
ProfileLoadOk(a) ==
    /\ profileLoads[a] > 0
    /\ profileLoads' = [profileLoads EXCEPT ![a] = @ - 1]
    /\ authUser' = a
    /\ UNCHANGED <<authSession, authLoading, sbSession, signInPending,
                   signOutPending, notAuthVars>>

\* The fetch fails or answers not ok (lines 79, 83-85).
ProfileLoadFails(a) ==
    /\ profileLoads[a] > 0
    /\ profileLoads' = [profileLoads EXCEPT ![a] = @ - 1]
    /\ UNCHANGED <<authUser, authSession, authLoading, sbSession,
                   signInPending, signOutPending, notAuthVars>>

NextAuth ==
    \/ CheckAuth
    \/ \E a \in Ids : SignIn(a)
    \/ SignInOk
    \/ SignInError
    \/ SignOut
    \/ SignOutDone
    \/ \E a \in Ids : ProfileLoadOk(a)
    \/ \E a \in Ids : ProfileLoadFails(a)

SpecAuth == Init /\ [][NextAuth]_vars

\* C28: the user profile is non-null only while a session is held.
C28_UserOnlyWithSession == authUser # "none" => authSession # "none"

\* ================================================ ChatWindow voice recording
\* The record button's handlers read the state of the latest render.
notRecVars == <<callInterfaceVars, newChatVars, likeVars, friendVars,
                chatVars, authVars>>

\* Mouse down on the record button: startRecording up to its await
\* (lines 1499-1501, 1856).
StartRecording ==
    /\ ~mouseDown
    /\ recStarts < MaxRecordings
    /\ mouseDown' = TRUE
    /\ recStarts' = recStarts + 1
    /\ recPending' = recPending \cup {recStarts + 1}
    /\ UNCHANGED <<isRecording, mediaRecorderRef, recorders, notRecVars>>

\* getUserMedia resolves for invocation i (lines 1502-1517): a recorder is
\* constructed on the stream, stored in the ref and started.
RecordingStarts(i) ==
    /\ i \in recPending
    /\ recPending' = recPending \ {i}
    /\ recorders' = Append(recorders,
                           [start |-> i, state |-> "recording", live |-> TRUE])
    /\ mediaRecorderRef' = Len(recorders) + 1
    /\ isRecording' = TRUE
    /\ UNCHANGED <<recStarts, mouseDown, notRecVars>>

\* getUserMedia rejects for invocation i (lines 1518-1520).
RecordingDenied(i) ==
    /\ i \in recPending
    /\ recPending' = recPending \ {i}
    /\ UNCHANGED <<isRecording, mediaRecorderRef, recorders, recStarts,
                   mouseDown, notRecVars>>

\* stopRecording (lines 1523-1528): the recorder of the ref is stopped only
\* if isRecording; its onstop handler then sends the audio.
StopRecordingBody ==
    IF mediaRecorderRef # 0 /\ isRecording
       THEN /\ recorders' = [recorders EXCEPT ![mediaRecorderRef].state = "sending"]
            /\ isRecording' = FALSE
       ELSE UNCHANGED <<recorders, isRecording>>

\* Mouse up on the held record button (line 1857): stopRecording.
StopRecording ==
    /\ mouseDown
    /\ mouseDown' = FALSE
    /\ StopRecordingBody
    /\ UNCHANGED <<mediaRecorderRef, recPending, recStarts, notRecVars>>

\* The pointer leaves the record button, held or not (line 1858):
\* stopRecording again.
MouseLeave ==
    /\ mouseDown' = FALSE
    /\ StopRecordingBody
    /\ UNCHANGED <<mediaRecorderRef, recPending, recStarts, notRecVars>>

\* sendAudioMessage returns in the onstop handler of recorder k
\* (lines 1510-1514): the tracks of its stream are stopped.
AudioMessageSent(k) ==
    /\ k \in DOMAIN recorders
    /\ recorders[k].state = "sending"
    /\ recorders' = [recorders EXCEPT ![k].state = "inactive", ![k].live = FALSE]
    /\ UNCHANGED <<isRecording, mediaRecorderRef, recPending, recStarts,
                   mouseDown, notRecVars>>

NextRec ==
    \/ StartRecording
    \/ \E i \in 1..MaxRecordings : RecordingStarts(i)
    \/ \E i \in 1..MaxRecordings : RecordingDenied(i)
    \/ StopRecording
    \/ MouseLeave
    \/ \E k \in 1..MaxRecordings : AudioMessageSent(k)

SpecRec == Init /\ [][NextRec]_vars

\* C29: once every startRecording has been followed by its stopRecording
\* and nothing is pending any more, no recorder is running and every
\* acquired stream is stopped.
C29_MicrophoneReleased ==
    (/\ ~mouseDown
     /\ recPending = {}
     /\ \A k \in DOMAIN recorders : recorders[k].state # "sending")
        => \A k \in DOMAIN recorders :
              recorders[k].state = "inactive" /\ ~recorders[k].live

\* ================================================ overlapping screen shares
\* C30: during the call at most one screen capture is live, and while some
\* peer connection sends a screen track isScreenSharing is true.
C30_OneScreenCapture ==
    phase = "mounted"
        => /\ Cardinality({i \in 1..Len(shares) : shares[i].status = "live"}) <= 1
           /\ (\E p \in peerConnections :
                    /\ pcObjects[p].video # NoTrack
                    /\ pcObjects[p].video.src = "screen")
                 => isScreenSharing


====
